---- MODULE Spec2Model ----
(***************************************************************************)
(* Model of src/src/index.tsx: a launcher command that lists the media     *)
(* players known to playerctl and controls them.                           *)
(*                                                                         *)
(* Text is modelled as a sequence of atoms.  The characters of a player    *)
(* identifier are single atoms ("a", ".", "1"); a word the tool prints     *)
(* as a status ("Playing") is one atom; " " and "\n" are the whitespace    *)
(* atoms.  The empty string is << >>.                                      *)
(***************************************************************************)
EXTENDS Integers, Sequences, FiniteSets, TLC

\* ------------------------------------------------------------------ bounds
MaxPlayers == 2      \* identifiers printed by one --list-all
MaxRefresh == 2      \* refreshPlayers calls, the initial load included
MaxOps == 2          \* mutating operations invoked

\* ------------------------------------------------------------------ text
Whitespace == {" ", "\n"}

RECURSIVE TrimStart(_)
TrimStart(s) ==
  IF s # << >> /\ Head(s) \in Whitespace THEN TrimStart(Tail(s)) ELSE s

RECURSIVE TrimEnd(_)
TrimEnd(s) ==
  IF s # << >> /\ s[Len(s)] \in Whitespace
  THEN TrimEnd(SubSeq(s, 1, Len(s) - 1)) ELSE s

\* String.prototype.trim
Trim(s) == TrimEnd(TrimStart(s))

\* String.prototype.split(sep): the pieces between the separators, empty
\* pieces included (a text with no separator is one piece)
RECURSIVE SplitAcc(_, _, _)
SplitAcc(s, sep, cur) ==
  IF s = << >> THEN <<cur>>
  ELSE IF Head(s) = sep THEN <<cur>> \o SplitAcc(Tail(s), sep, << >>)
  ELSE SplitAcc(Tail(s), sep, Append(cur, Head(s)))

Split(s, sep) == SplitAcc(s, sep, << >>)

MapTrim(lines) == [i \in 1..Len(lines) |-> Trim(lines[i])]

IsNonEmpty(s) == s # << >>

\* .filter(Boolean)
FilterBoolean(lines) == SelectSeq(lines, IsNonEmpty)

\* Collation rank of a character: punctuation before digits before letters
CharRank(c) ==
  CASE c = "." -> 1
    [] c = "1" -> 2
    [] c = "2" -> 3
    [] c = "a" -> 4
    [] c = "b" -> 5
    [] OTHER -> 0

\* a.localeCompare(b): negative, zero or positive
RECURSIVE LocaleCompare(_, _)
LocaleCompare(a, b) ==
  IF a = << >> /\ b = << >> THEN 0
  ELSE IF a = << >> THEN -1
  ELSE IF b = << >> THEN 1
  ELSE IF CharRank(Head(a)) < CharRank(Head(b)) THEN -1
  ELSE IF CharRank(Head(a)) > CharRank(Head(b)) THEN 1
  ELSE LocaleCompare(Tail(a), Tail(b))

\* Array.prototype.sort with the comparator of line 32 (stable)
RECURSIVE InsertSorted(_, _)
InsertSorted(sorted, x) ==
  IF sorted = << >> THEN <<x>>
  ELSE IF LocaleCompare(x, Head(sorted)) < 0 THEN <<x>> \o sorted
  ELSE <<Head(sorted)>> \o InsertSorted(Tail(sorted), x)

RECURSIVE SortNames(_)
SortNames(names) ==
  IF names = << >> THEN << >>
  ELSE InsertSorted(SortNames(SubSeq(names, 1, Len(names) - 1)), names[Len(names)])

\* the names of getPlayers: split, trim, drop the empty lines, sort
ParseNames(namesOut) == SortNames(FilterBoolean(MapTrim(Split(namesOut, "\n"))))

\* name.split(".")[0]
DisplayName(name) == Split(name, ".")[1]

\* ------------------------------------------------------------------ the tool
\* What one playerctl invocation can do: exit 0 with some stdout, or fail
\* (not installed, non-zero exit).
Ok(stdout) == [ok |-> TRUE, stdout |-> stdout]
Failed == [ok |-> FALSE, stdout |-> << >>]

NameA == <<"a", ".", "1">>
NameB == <<"b", ".", "2">>
NameC == <<"a", "b">>
NameSeq == <<NameB, NameA, NameC>>
NamePool == { NameSeq[i] : i \in 1..3 }

\* sequences of distinct identifiers, at most MaxPlayers of them
NameSeqs ==
  UNION { { s \in [1..n -> NamePool] : \A i, j \in 1..n : i # j => s[i] # s[j] }
          : n \in 0..MaxPlayers }

RECURSIVE JoinLines(_)
JoinLines(names) ==
  IF names = << >> THEN << >>
  ELSE Head(names) \o <<"\n">> \o JoinLines(Tail(names))

\* stdout of playerctl --list-all: one identifier per line, in the tool's
\* order; also a blank line between two identifiers and no final newline
ListStdouts ==
  { JoinLines(s) : s \in NameSeqs }
    \cup { <<"\n">>, NameB \o <<"\n", " ", "\n", " ">> \o NameA }

ListResponses == { Ok(s) : s \in ListStdouts } \cup { Failed }

\* stdout of playerctl status -p <name>
StatusWords == {"Playing", "Paused", "Stopped", "Buffering"}
StatusStdouts == { <<w, "\n">> : w \in StatusWords } \cup { <<"\n">> }
StatusResponses == { Ok(s) : s \in StatusStdouts } \cup { Failed }

\* ------------------------------------------------------------------ run
\* run without the ignoreError branch of its catch
RunRethrow(resp, ignoreError) ==
  IF resp.ok THEN [threw |-> FALSE, out |-> Trim(resp.stdout)]
  ELSE [threw |-> TRUE, out |-> << >>]

\* run(cmd, args, opts): the trimmed stdout; a failure is rethrown unless
\* opts.ignoreError, and then the result is ""
Run(resp, ignoreError) ==
  IF resp.ok THEN [threw |-> FALSE, out |-> Trim(resp.stdout)]
  ELSE IF ~ignoreError THEN [threw |-> TRUE, out |-> << >>]
  ELSE [threw |-> FALSE, out |-> << >>]

\* ------------------------------------------------------------------ getPlayers
\* One getPlayers call.  phase: "idle" (not called), "status" (awaiting the
\* Promise.all of the status queries), "returned", "threw".
\* listResp, queryResp and order record what the tool answered and in which
\* order the status queries completed.
NoResp == [ok |-> FALSE, stdout |-> <<"<none>">>]

IdleCall ==
  [phase |-> "idle", names |-> << >>, statuses |-> << >>, done |-> {},
   result |-> << >>, listResp |-> NoResp, queryResp |-> << >>, order |-> << >>]

\* lines 26-32: the --list-all invocation, the early return and the names
GetPlayersList(resp) ==
  LET r == Run(resp, TRUE) IN
  IF r.threw THEN [IdleCall EXCEPT !.phase = "threw", !.listResp = resp]
  ELSE IF r.out = << >>
  THEN [IdleCall EXCEPT !.phase = "returned", !.listResp = resp]
  ELSE LET names == ParseNames(r.out) IN
       [IdleCall EXCEPT !.phase = "status", !.listResp = resp,
                        !.names = names,
                        !.statuses = [i \in 1..Len(names) |-> << >>],
                        !.queryResp = [i \in 1..Len(names) |-> NoResp]]

\* a status query that lets the failure of playerctl through
StatusQueryStrict(resp) ==
  LET r == Run(resp, FALSE) IN
  [threw |-> r.threw, status |-> IF r.out = << >> THEN <<"Unknown">> ELSE r.out]

\* lines 36-37: one status query, status || "Unknown"
StatusQuery(resp) ==
  LET r == Run(resp, TRUE) IN
  [threw |-> r.threw, status |-> IF r.out = << >> THEN <<"Unknown">> ELSE r.out]

\* values collected in the order the promises settle
PromiseAllPush(statuses, done, i, v) ==
  [statuses EXCEPT ![Cardinality(done) + 1] = v]

\* Promise.all collects the value of the i-th promise at index i
PromiseAllStore(statuses, done, i, v) == [statuses EXCEPT ![i] = v]

\* one status query of the call settles
GetPlayersStatus(c, i, resp) ==
  LET q == StatusQuery(resp) IN
  IF q.threw
  THEN [c EXCEPT !.phase = "threw", !.queryResp[i] = resp,
                 !.done = @ \cup {i}, !.order = Append(@, i)]
  ELSE [c EXCEPT !.statuses = PromiseAllStore(c.statuses, c.done, i, q.status),
                 !.queryResp[i] = resp,
                 !.done = @ \cup {i}, !.order = Append(@, i)]

\* a record whose playing flag is 'not paused'
MkPlayerNotPaused(name, status) ==
  LET playing == (status # <<"Paused">>)
      displayName == DisplayName(name)
  IN [name |-> name, status |-> status,
      label |-> IF playing THEN displayName \o <<" (Playing)">> ELSE displayName,
      playing |-> playing]

\* lines 41-47: one record
MkPlayer(name, status) ==
  LET playing == (status = <<"Playing">>)
      displayName == DisplayName(name)
  IN [name |-> name, status |-> status,
      label |-> IF playing THEN displayName \o <<" (Playing)">> ELSE displayName,
      playing |-> playing]

\* lines 41-47: the records, once every status query has settled
GetPlayersReturn(c) ==
  [c EXCEPT !.phase = "returned",
            !.result = [i \in 1..Len(c.names) |-> MkPlayer(c.names[i], c.statuses[i])]]

AllSettled(c) == c.done = 1..Len(c.names)

VARIABLES build, world, players, isLoading, lastAction, refreshes, completed,
          ops, timers

vars == <<build, world, players, isLoading, lastAction, refreshes, completed,
          ops, timers>>

ui == <<world, players, isLoading, lastAction, refreshes, completed, ops, timers>>

\* --- a getPlayers call on its own, against every answer of the tool
BuildCall ==
  /\ build.phase = "idle"
  /\ \E resp \in ListResponses : build' = GetPlayersList(resp)
  /\ UNCHANGED ui

BuildStatus ==
  /\ build.phase = "status"
  /\ \E i \in (1..Len(build.names)) \ build.done :
       \E resp \in StatusResponses : build' = GetPlayersStatus(build, i, resp)
  /\ UNCHANGED ui

BuildReturn ==
  /\ build.phase = "status"
  /\ AllSettled(build)
  /\ build' = GetPlayersReturn(build)
  /\ UNCHANGED ui

\* ------------------------------------------------------------------ the players
\* The players playerctl controls and the playback state of each; the
\* command answers the tool gives are read off it.
WorldNames == { NameSeq[i] : i \in 1..MaxPlayers }

\* every order in which --list-all can print the players
WorldListResponses ==
  { Ok(JoinLines(s)) : s \in { t \in NameSeqs : { t[i] : i \in 1..Len(t) } = WorldNames } }
    \cup { Failed }

WorldStatusResponses(w, name) ==
  (IF name \in DOMAIN w THEN { Ok(<<w[name], "\n">>) } ELSE {}) \cup { Failed }

\* what a control command that exits 0 does to the players
WorldEffect(w, args) ==
  IF Len(args) = 3 /\ args[3] \in DOMAIN w
  THEN CASE args[1] = "pause" -> [w EXCEPT ![args[3]] = "Paused"]
         [] args[1] = "play" -> [w EXCEPT ![args[3]] = "Playing"]
         [] args[1] = "play-pause" ->
              [w EXCEPT ![args[3]] = IF @ = "Playing" THEN "Paused" ELSE "Playing"]
         [] OTHER -> w
  ELSE w

\* ------------------------------------------------------------------ refreshPlayers
\* line 62
LoadingAtStart(silent, loading) == IF silent THEN loading ELSE TRUE

\* the result of a call is dropped once a call started later has completed
PlayersToSetUnlessOvertaken(r, c, done, shown) ==
  IF \E k \in 1..Len(done) : done[k] > r THEN shown
  ELSE IF c.phase = "returned" THEN c.result ELSE << >>

\* lines 64 and 71: the list the call hands to setPlayers
PlayersToSet(r, c, done, shown) == IF c.phase = "returned" THEN c.result ELSE << >>

\* the loading flag cleared only by the calls that set it
LoadingAtEndIfSet(silent, loading) == IF silent THEN loading ELSE FALSE

\* lines 72-74
LoadingAtEnd(silent, loading) == FALSE

\* a settled call keeps its outcome only
Outcome(c) == [IdleCall EXCEPT !.phase = c.phase, !.result = c.result]

\* an awaited call keeps no record of the tool's answers
InFlight(c) ==
  [c EXCEPT !.listResp = NoResp, !.order = << >>,
            !.queryResp = [i \in 1..Len(c.names) |-> NoResp]]

NewRefresh(silent) ==
  [silent |-> silent, call |-> [IdleCall EXCEPT !.phase = "list"], toast |-> FALSE]

Settled(c) == c.phase \in {"returned", "threw"}

\* refreshPlayers(silent) up to its await of getPlayers
RefreshCall(silent) ==
  /\ refreshes' = Append(refreshes, NewRefresh(silent))
  /\ isLoading' = LoadingAtStart(silent, isLoading)

\* refreshPlayers from the return (or throw) of getPlayers to its end
RefreshResume(r, c) ==
  IF Settled(c)
  THEN /\ players' = PlayersToSet(r, c, completed, players)
       /\ isLoading' = LoadingAtEnd(refreshes[r].silent, isLoading)
       /\ refreshes' = [refreshes EXCEPT ![r].call = Outcome(c),
                                         ![r].toast = (c.phase = "threw")]
       /\ completed' = Append(completed, r)
  ELSE /\ refreshes' = [refreshes EXCEPT ![r].call = InFlight(c)]
       /\ UNCHANGED <<players, isLoading, completed>>

\* the Refresh actions of the panels
ManualRefresh ==
  /\ Len(refreshes) < MaxRefresh
  /\ RefreshCall(FALSE)
  /\ UNCHANGED <<build, world, players, lastAction, completed, ops, timers>>

\* the callback of setTimeout(() => refreshPlayers(true), ...)
TimerFire ==
  /\ timers > 0
  /\ Len(refreshes) < MaxRefresh
  /\ timers' = timers - 1
  /\ RefreshCall(TRUE)
  /\ UNCHANGED <<build, world, players, lastAction, completed, ops>>

\* the --list-all of a refresh exits
RefreshList ==
  \E r \in 1..Len(refreshes) :
    /\ refreshes[r].call.phase = "list"
    /\ \E resp \in WorldListResponses : RefreshResume(r, GetPlayersList(resp))
    /\ UNCHANGED <<build, world, lastAction, ops, timers>>

\* one status query of a refresh exits; the last one resumes getPlayers
RefreshStatus ==
  \E r \in 1..Len(refreshes) :
    LET c == refreshes[r].call IN
    /\ c.phase = "status"
    /\ \E i \in (1..Len(c.names)) \ c.done :
         \E resp \in WorldStatusResponses(world, c.names[i]) :
           LET d == GetPlayersStatus(c, i, resp) IN
           RefreshResume(r, IF d.phase = "status" /\ AllSettled(d)
                            THEN GetPlayersReturn(d) ELSE d)
    /\ UNCHANGED <<build, world, lastAction, ops, timers>>

\* ------------------------------------------------------------------ the controls
\* lines 50-53: the arguments playerCommand passes to playerctl
PlayerCommandArgs(command, playerName) ==
  IF playerName # << >> THEN <<command, "-p", playerName>> ELSE <<command>>

IsPlaying(p) == p.playing

\* players.find((p) => p.playing): the name of the first playing record,
\* << >> when find returns undefined
ActiveName(ps) ==
  LET playing == SelectSeq(ps, IsPlaying) IN
  IF playing = << >> THEN << >> ELSE playing[1].name

\* nextTrack and previousTrack without the active branch
TrackArgsGlobal(command, ps) == PlayerCommandArgs(command, << >>)

\* lines 118-126 and 134-142: the command of nextTrack and previousTrack
TrackArgs(command, ps) ==
  IF ActiveName(ps) # << >> THEN PlayerCommandArgs(command, ActiveName(ps))
  ELSE PlayerCommandArgs(command, << >>)

\* players.filter((p) => p.playing) and its variant of line 163
ToPause(ps, except) ==
  LET RECURSIVE Pick(_)
      Pick(t) == IF t = << >> THEN << >>
                 ELSE IF Head(t).playing /\ Head(t).name # except
                      THEN <<Head(t)>> \o Pick(Tail(t)) ELSE Pick(Tail(t))
  IN Pick(ps)

SingleKinds == {"toggle", "play", "pause", "next", "previous"}
BulkKinds == {"pauseAll", "pauseAllExcept"}

NoToast == [style |-> "none", title |-> << >>]

\* failure titles that carry the whole identifier
FailureTitleFullName(kind, target) ==
  CASE kind = "toggle" -> <<"Failed to toggle ">> \o target
    [] kind = "play" -> <<"Failed to play ">> \o target
    [] kind = "pause" -> <<"Failed to pause ">> \o target
    [] kind = "next" -> <<"Failed to go to next track">>
    [] kind = "previous" -> <<"Failed to go to previous track">>
    [] kind = "pauseAll" -> <<"Failed to pause all players">>
    [] OTHER -> <<"Failed to pause others">>

\* the titles of the failure toasts
FailureTitle(kind, target) ==
  CASE kind = "toggle" -> <<"Failed to toggle ">> \o DisplayName(target)
    [] kind = "play" -> <<"Failed to play ">> \o DisplayName(target)
    [] kind = "pause" -> <<"Failed to pause ">> \o DisplayName(target)
    [] kind = "next" -> <<"Failed to go to next track">>
    [] kind = "previous" -> <<"Failed to go to previous track">>
    [] kind = "pauseAll" -> <<"Failed to pause all players">>
    [] OTHER -> <<"Failed to pause others">>

\* the titles of the success toasts of the two bulk operations
SuccessTitle(kind, n) ==
  IF kind = "pauseAll" THEN <<"Paused all players">>
  ELSE <<"Paused ", n, " other player", IF n = 1 THEN "" ELSE "s">>

\* An operation: its commands, each "pending", "ok" or "fail"; phase is
\* "await" until its await of playerCommand or of Promise.all is over.
NewOp(kind, target, argsSeq) ==
  [kind |-> kind, target |-> target,
   cmds |-> [i \in 1..Len(argsSeq) |-> [args |-> argsSeq[i], res |-> "pending"]],
   phase |-> "await", toast |-> NoToast, scheduled |-> FALSE]

\* the timer moved into a finally
SettleSingleFinally(op) ==
  IF op.cmds[1].res = "ok"
  THEN [op EXCEPT !.phase = "done", !.scheduled = TRUE]
  ELSE [op EXCEPT !.phase = "done", !.scheduled = TRUE,
                  !.toast = [style |-> "Failure",
                             title |-> FailureTitle(op.kind, op.target)]]

\* try/catch of togglePlayer, playPlayer, pausePlayer, nextTrack and
\* previousTrack: the timer after the command, the toast in the catch
SettleSingle(op) ==
  IF op.cmds[1].res = "ok"
  THEN [op EXCEPT !.phase = "done", !.scheduled = TRUE]
  ELSE [op EXCEPT !.phase = "done",
                  !.toast = [style |-> "Failure",
                             title |-> FailureTitle(op.kind, op.target)]]

\* Promise.allSettled in place of Promise.all: waits for every command and
\* never rejects
SettleBulkAllSettled(op) ==
  IF \A i \in 1..Len(op.cmds) : op.cmds[i].res # "pending"
  THEN [op EXCEPT !.phase = "done", !.scheduled = TRUE,
                  !.toast = [style |-> "Success",
                             title |-> SuccessTitle(op.kind, Len(op.cmds))]]
  ELSE op

\* try/catch/finally of pauseAllPlayers and pauseAllExcept: Promise.all
\* rejects with the first command that fails and resolves once all are ok
SettleBulk(op) ==
  IF \E i \in 1..Len(op.cmds) : op.cmds[i].res = "fail"
  THEN [op EXCEPT !.phase = "done", !.scheduled = TRUE,
                  !.toast = [style |-> "Failure",
                             title |-> FailureTitle(op.kind, op.target)]]
  ELSE IF \A i \in 1..Len(op.cmds) : op.cmds[i].res = "ok"
  THEN [op EXCEPT !.phase = "done", !.scheduled = TRUE,
                  !.toast = [style |-> "Success",
                             title |-> SuccessTitle(op.kind, Len(op.cmds))]]
  ELSE op

\* the operation resumes when the promise it awaits settles
AfterCommand(op) ==
  IF op.phase # "await" THEN op
  ELSE IF op.kind \in SingleKinds THEN SettleSingle(op)
  ELSE SettleBulk(op)

\* a handler up to its await: setLastAction and the commands it starts
Invoke(op, text) ==
  LET o == IF op.cmds = << >> THEN AfterCommand(op) ELSE op IN
  /\ Len(ops) < MaxOps
  /\ ops' = Append(ops, o)
  /\ lastAction' = text
  /\ timers' = timers + (IF o.scheduled THEN 1 ELSE 0)
  /\ UNCHANGED <<build, world, players, isLoading, refreshes, completed>>

TogglePlayer ==
  \E i \in 1..Len(players) :
    LET name == players[i].name IN
    Invoke(NewOp("toggle", name, <<PlayerCommandArgs("play-pause", name)>>),
           <<"play-pause for ">> \o name)

PlayPlayer ==
  \E i \in 1..Len(players) :
    LET name == players[i].name IN
    Invoke(NewOp("play", name, <<PlayerCommandArgs("play", name)>>),
           <<"play for ">> \o name)

PausePlayer ==
  \E i \in 1..Len(players) :
    LET name == players[i].name IN
    Invoke(NewOp("pause", name, <<PlayerCommandArgs("pause", name)>>),
           <<"pause for ">> \o name)

NextTrack ==
  Invoke(NewOp("next", ActiveName(players), <<TrackArgs("next", players)>>),
         IF ActiveName(players) # << >>
         THEN <<"next for ">> \o ActiveName(players) ELSE <<"next (global)">>)

PreviousTrack ==
  Invoke(NewOp("previous", ActiveName(players), <<TrackArgs("previous", players)>>),
         IF ActiveName(players) # << >>
         THEN <<"previous for ">> \o ActiveName(players) ELSE <<"previous (global)">>)

PauseArgs(ps) == [i \in 1..Len(ps) |-> PlayerCommandArgs("pause", ps[i].name)]

PauseAllPlayers ==
  LET toPause == ToPause(players, << >>) IN
  Invoke(NewOp("pauseAll", << >>, PauseArgs(toPause)),
         <<"pause all (", Len(toPause), ")">>)

PauseAllExcept ==
  \E i \in 1..Len(players) :
    LET name == players[i].name
        others == ToPause(players, name)
    IN Invoke(NewOp("pauseAllExcept", name, PauseArgs(others)),
              <<"pause all except ">> \o name \o <<" (", Len(others), ")">>)

\* one playerctl control command exits
CommandExit ==
  \E o \in 1..Len(ops) : \E i \in 1..Len(ops[o].cmds) : \E ok \in BOOLEAN :
    LET op == [ops[o] EXCEPT !.cmds[i].res = IF ok THEN "ok" ELSE "fail"]
        after == AfterCommand(op)
    IN /\ ops[o].cmds[i].res = "pending"
       /\ world' = IF ok THEN WorldEffect(world, ops[o].cmds[i].args) ELSE world
       /\ ops' = [ops EXCEPT ![o] = after]
       /\ timers' = timers + (IF after.scheduled /\ ~ops[o].scheduled THEN 1 ELSE 0)
       /\ UNCHANGED <<build, players, isLoading, lastAction, refreshes, completed>>

\* ------------------------------------------------------------------ specifications
InitBuild ==
  /\ build = IdleCall
  /\ world \in [WorldNames -> {"Playing", "Paused"}]
  /\ players = << >>
  /\ isLoading = TRUE
  /\ lastAction = << >>
  /\ refreshes = <<NewRefresh(FALSE)>>
  /\ completed = << >>
  /\ ops = << >>
  /\ timers = 0

NextBuild == BuildCall \/ BuildStatus \/ BuildReturn
SpecBuild == InitBuild /\ [][NextBuild]_vars

\* the mounted command: the initial load of lines 218-221 is in flight
Init == InitBuild

Next ==
  \/ ManualRefresh
  \/ TimerFire
  \/ RefreshList
  \/ RefreshStatus
  \/ TogglePlayer
  \/ PlayPlayer
  \/ PausePlayer
  \/ NextTrack
  \/ PreviousTrack
  \/ PauseAllPlayers
  \/ PauseAllExcept
  \/ CommandExit

Spec == Init /\ [][Next]_vars

\* ------------------------------------------------------------------ properties of getPlayers
Returned == build.phase = "returned"

\* the text run hands back for an answer of the tool when errors are ignored
AnswerText(resp) == IF resp.ok THEN Trim(resp.stdout) ELSE << >>

\* the non-blank lines of the --list-all answer
ListedNames ==
  LET lines == Split(AnswerText(build.listResp), "\n") IN
  { Trim(lines[i]) : i \in 1..Len(lines) } \ { << >> }

\* the record one identifier and the answer to its own status query give
RecordFor(name, resp) ==
  LET text == AnswerText(resp)
      status == IF text = << >> THEN <<"Unknown">> ELSE text
      playing == (text = <<"Playing">>)
  IN [name |-> name, status |-> status, playing |-> playing,
      label |-> IF playing THEN DisplayName(name) \o <<" (Playing)">>
                ELSE DisplayName(name)]

\* C1: getPlayers never throws: whatever --list-all and the status queries
\* do, the call never ends in an error, and when --list-all fails or prints
\* nothing the call returns the empty sequence.
GetPlayersNeverThrows ==
  /\ build.phase # "threw"
  /\ Returned => DOMAIN build.result = 1..Len(build.result)
  /\ (Returned /\ AnswerText(build.listResp) = << >>) => build.result = << >>

\* C1 witness: a call returned [] after --list-all failed
ListFailedReturnedEmpty ==
  Returned /\ ~build.listResp.ok /\ build.result = << >>

\* C4: a status query that fails or prints nothing gives its player status
\* Unknown and playing = false; every record is the one its own identifier
\* and its own answer give, whatever the other queries did; the call is never
\* aborted and returns one record per identifier.
StatusFailureIsolated ==
  /\ build.phase # "threw"
  /\ Returned =>
       /\ Len(build.result) = Cardinality(ListedNames)
       /\ \A i \in 1..Len(build.result) :
            /\ build.result[i] = RecordFor(build.names[i], build.queryResp[i])
            /\ AnswerText(build.queryResp[i]) = << >> =>
                 /\ build.result[i].status = <<"Unknown">>
                 /\ ~build.result[i].playing

\* C4 witness: two records, one query failed, the other player is playing
OneFailedOtherPlaying ==
  /\ Returned
  /\ Len(build.result) = 2
  /\ \E i, j \in 1..2 :
       /\ ~build.queryResp[i].ok
       /\ build.result[i].status = <<"Unknown">>
       /\ build.queryResp[j] = Ok(<<"Playing", "\n">>)
       /\ build.result[j].playing

\* C5: the records are in ascending order of their identifiers, they are the
\* identifiers --list-all printed, and record i carries the status of the
\* query issued for identifier i, in whatever order the queries completed.
OrderIsSortedOrder ==
  Returned =>
    /\ \A i, j \in 1..Len(build.result) :
         i < j => LocaleCompare(build.result[i].name, build.result[j].name) < 0
    /\ { build.result[i].name : i \in 1..Len(build.result) } = ListedNames
    /\ \A i \in 1..Len(build.result) :
         build.result[i].status = RecordFor(build.names[i], build.queryResp[i]).status

\* C5 witness: printed b.2 before a.1, the second query completed first, the
\* two statuses differ
CompletedOutOfOrder ==
  /\ Returned
  /\ build.listResp = Ok(JoinLines(<<NameB, NameA>>))
  /\ build.order = <<2, 1>>
  /\ build.result[1].name = NameA
  /\ build.result[1].status = <<"Paused">>
  /\ build.result[2].status = <<"Playing">>

RecognizedStatuses == { <<"Playing">>, <<"Paused">>, <<"Stopped">> }

\* C8 as stated: every record has one of the four statuses
StatusAlwaysRecognized ==
  Returned =>
    \A i \in 1..Len(build.result) :
      build.result[i].status \in RecognizedStatuses \cup { <<"Unknown">> }

\* C8 as amended: the status is the trimmed text the query printed, whatever
\* it is, and Unknown only when the query failed or printed nothing; playing
\* is true iff the status is Playing.
StatusNormalized ==
  Returned =>
    \A i \in 1..Len(build.result) :
      LET text == AnswerText(build.queryResp[i]) IN
      /\ text # << >> => build.result[i].status = text
      /\ text = << >> => build.result[i].status = <<"Unknown">>
      /\ build.result[i].playing <=> (build.result[i].status = <<"Playing">>)

\* C8 witness: one query printed nothing, another printed an unlisted word
EmptyAndUnlistedStatus ==
  /\ Returned
  /\ \E i, j \in 1..Len(build.result) :
       /\ build.queryResp[i] = Ok(<<"\n">>)
       /\ build.result[i].status = <<"Unknown">>
       /\ build.result[j].status = <<"Buffering">>
       /\ ~build.result[j].playing

\* ------------------------------------------------------------------ properties of the controls
Bulk(o) == ops[o].kind \in BulkKinds
Results(o) == { ops[o].cmds[i].res : i \in 1..Len(ops[o].cmds) }
SomeFailed(o) == "fail" \in Results(o)
AllOk(o) == Results(o) \subseteq {"ok"}
AllExited(o) == "pending" \notin Results(o)

\* C2 as stated: in a fan-out whose commands have all exited, a command that
\* succeeded is reported as succeeded, whatever its siblings did.
FanOutReportsEachSuccess ==
  \A o \in 1..Len(ops) :
    (Bulk(o) /\ AllExited(o) /\ "ok" \in Results(o)) => ops[o].toast.style = "Success"

\* C2 as amended: every command of the fan-out is started once when the
\* operation is invoked and exits on its own, a failed sibling cancelling
\* nothing; the fan-out reports one toast for all of them: Failure as soon
\* as one command fails, Success only when all of them succeeded.
FanOutReportsOnce ==
  \A o \in 1..Len(ops) :
    Bulk(o) =>
      /\ \A i, j \in 1..Len(ops[o].cmds) :
           /\ ops[o].cmds[i].args[1] = "pause"
           /\ i # j => ops[o].cmds[i].args # ops[o].cmds[j].args
      /\ SomeFailed(o) <=> ops[o].toast.style = "Failure"
      /\ (AllOk(o) /\ ~SomeFailed(o)) <=> ops[o].toast.style = "Success"
      /\ ops[o].toast.style = "Failure" =>
           ops[o].toast.title \in { <<"Failed to pause all players">>,
                                    <<"Failed to pause others">> }

\* C2 witness: pause all over two playing players; the command to one failed,
\* the command to the other succeeded and paused its player
FanOutPartialFailure ==
  /\ Len(ops) >= 1
  /\ ops[1].kind = "pauseAll"
  /\ Len(ops[1].cmds) = 2
  /\ ops[1].cmds[1].res = "fail"
  /\ ops[1].cmds[2].res = "ok"
  /\ world[ops[1].cmds[2].args[3]] = "Paused"
  /\ ops[1].toast.style = "Failure"

\* C3 as stated: every operation that is over has scheduled a refresh.
EveryOpSchedulesRefresh ==
  \A o \in 1..Len(ops) : ops[o].phase = "done" => ops[o].scheduled

ScheduledOps == { o \in 1..Len(ops) : ops[o].scheduled }
SilentRefreshes == { r \in 1..Len(refreshes) : refreshes[r].silent }

\* C3 as amended: pause all and pause all except one schedule a refresh
\* whether their commands succeed or fail; toggle, play, pause, next and
\* previous schedule one only when their command succeeds, and none when it
\* fails.  Every scheduled refresh is a pending timer or a
\* refreshPlayers(true) call.
RefreshScheduledUnlessSingleFailed ==
  /\ \A o \in 1..Len(ops) :
       /\ ops[o].phase = "done" =>
            (ops[o].scheduled <=> (Bulk(o) \/ ops[o].cmds[1].res = "ok"))
       /\ ops[o].phase # "done" => ~ops[o].scheduled
  /\ Cardinality(ScheduledOps) = timers + Cardinality(SilentRefreshes)

\* C3 witness: a fan-out that failed and a single command that succeeded
\* have both scheduled, and one of the timers has fired
FailedFanOutScheduled ==
  /\ Len(ops) = 2
  /\ \E o, q \in 1..2 :
       /\ Bulk(o) /\ SomeFailed(o) /\ ops[o].scheduled
       /\ ~Bulk(q) /\ ops[q].cmds[1].res = "ok" /\ ops[q].scheduled
  /\ SilentRefreshes # {}

FailureVerb(kind) ==
  CASE kind = "toggle" -> "Failed to toggle "
    [] kind = "play" -> "Failed to play "
    [] kind = "pause" -> "Failed to pause "
    [] kind = "next" -> "Failed to go to next track"
    [] kind = "previous" -> "Failed to go to previous track"
    [] kind = "pauseAll" -> "Failed to pause all players"
    [] OTHER -> "Failed to pause others"

\* the characters of an identifier before its first "."
BeforeDot(name) ==
  LET dots == { i \in 1..Len(name) : name[i] = "." } IN
  IF dots = {} THEN name
  ELSE SubSeq(name, 1, (CHOOSE i \in dots : \A j \in dots : i <= j) - 1)

FailureReported ==
  \A o \in 1..Len(ops) :
    /\ SomeFailed(o) =>
         /\ ops[o].toast.style = "Failure"
         /\ ops[o].toast.title[1] = FailureVerb(ops[o].kind)
         /\ ops[o].kind \in {"toggle", "play", "pause"} =>
              SubSeq(ops[o].toast.title, 2, Len(ops[o].toast.title))
                = BeforeDot(ops[o].target)
    /\ ops[o].toast.style = "Failure" => SomeFailed(o)

NeverReissued ==
  \A o \in 1..Len(ops) :
    /\ Len(ops') >= o
    /\ Len(ops'[o].cmds) = Len(ops[o].cmds)
    /\ \A i \in 1..Len(ops[o].cmds) :
         /\ ops'[o].cmds[i].args = ops[o].cmds[i].args
         /\ ops[o].cmds[i].res # "pending" => ops'[o].cmds[i].res = ops[o].cmds[i].res

\* C6: an operation with a failed command shows the Failure toast of that
\* operation, whose title names the operation and, for toggle, play and
\* pause, the display name of the target; a command that has exited is never
\* started again, and an operation never gains a command after it is invoked.
FailedOpsReportAndNeverRetry == [] FailureReported /\ [][NeverReissued]_vars

\* C6 witness: a pause of b.2 failed and "Failed to pause b" is shown
PauseFailedToast ==
  /\ Len(ops) >= 1
  /\ ops[1].kind = "pause"
  /\ ops[1].target = NameB
  /\ ops[1].cmds[1].res = "fail"
  /\ ops[1].toast = [style |-> "Failure", title |-> <<"Failed to pause ", "b">>]

PlayingIn(ps) == { i \in 1..Len(ps) : ps[i].playing }

TrackScope ==
  (Len(ops') = Len(ops) + 1 /\ ops'[Len(ops')].kind \in {"next", "previous"}) =>
    LET op == ops'[Len(ops')] IN
    /\ Len(op.cmds) = 1
    /\ PlayingIn(players) = {} => op.cmds[1].args = <<op.kind>>
    /\ \A i \in 1..Len(players) :
         PlayingIn(players) = {i} => op.cmds[1].args = <<op.kind, "-p", players[i].name>>

\* C7: nextTrack and previousTrack start the unscoped command when no record
\* of the player list held at the invocation is playing, and the command
\* scoped to X (-p X) when X is the one playing record of that list.
TrackCommandScope == [][TrackScope]_vars

\* C7 witness: next was invoked with a.1 the one playing record of the list
NextScopedToPlaying ==
  /\ Len(ops) >= 1
  /\ ops[1].kind = "next"
  /\ ops[1].cmds[1].args = <<"next", "-p", NameA>>
  /\ \E i \in 1..Len(players) : PlayingIn(players) = {i} /\ players[i].name = NameA

\* ------------------------------------------------------------------ properties of refreshPlayers
InFlightRefreshes == { r \in 1..Len(refreshes) : ~Settled(refreshes[r].call) }

\* C9: every refreshPlayers call in flight completes and writes its result,
\* no call cancels another, and the list shown is the result of the call
\* that completed last, also when that call was started first.
LastCompletedWins ==
  /\ \A r \in 1..Len(refreshes) :
       Settled(refreshes[r].call) <=> \E k \in 1..Len(completed) : completed[k] = r
  /\ completed # << >> =>
       players = refreshes[completed[Len(completed)]].call.result

\* C9 witness: the initial load completed after the refresh started later,
\* and the list shown is its older view: a player shown Playing that the
\* later call saw Paused and that is paused
StaleRefreshWins ==
  /\ completed = <<2, 1>>
  /\ players = refreshes[1].call.result
  /\ \E i \in 1..Len(players) :
       /\ players[i].status = <<"Playing">>
       /\ Len(refreshes[2].call.result) = Len(players)
       /\ refreshes[2].call.result[i].status = <<"Paused">>
       /\ world[players[i].name] = "Paused"

LoadingSettled ==
  (completed # << >> /\ InFlightRefreshes = {}) => ~isLoading

LoadingSteps ==
  /\ (Len(refreshes') = Len(refreshes) + 1 /\ refreshes'[Len(refreshes')].silent)
       => isLoading' = isLoading
  /\ Len(completed') = Len(completed) + 1 => ~isLoading'

\* C10: a silent refreshPlayers call leaves isLoading as it is when it starts,
\* every call, silent or not, ends with isLoading false, and isLoading is
\* false whenever a call has completed and none is in flight.
LoadingFlagClears == [] LoadingSettled /\ [][LoadingSteps]_vars

\* C10 witness: the initial load and a silent refresh have both completed
SilentRefreshCompleted ==
  /\ Len(completed) = 2
  /\ refreshes[2].silent
  /\ InFlightRefreshes = {}
  /\ ~isLoading

====
